---- MODULE Spec2Model ----
\* A model of src/src/controller.py: the number encoder, the Controller object
\* (update, the rendering routines, send_packets) and the display loop.
\*
\* Python positions are 0-based; sequences here are 1-based, so LED index p of
\* the source is position p + 1 of the model's buffers.
EXTENDS Integers, Sequences, FiniteSets, TLC

VARIABLES
    pc,                 \* where the program is: "display", "crashed", "enc", "enc_done"
    exc,                \* the exception that ended the program, or "none"
    openable,           \* environment: hid.Device(...) succeeds for the default id pair
    dev,                \* self.dev: "None" or "open"
    VENDOR_ID,          \* self.VENDOR_ID
    PRODUCT_ID,         \* self.PRODUCT_ID
    config,             \* self.config: the loaded document, or None
    leds_indexes,       \* self.leds_indexes: "big" or "small"
    display_mode,       \* self.display_mode
    cycle_duration,     \* self.cycle_duration (ticks)
    update_interval,    \* self.update_interval (milliseconds)
    cpt,                \* self.cpt
    leds,               \* self.leds
    colors,             \* self.colors
    metrics_colors,     \* self.metrics_colors
    time_colors,        \* self.time_colors
    metrics_min_value,  \* self.metrics_min_value
    metrics_max_value,  \* self.metrics_max_value
    temp_unit,          \* self.temp_unit
    metrics,            \* what self.metrics.get_metrics() returns in this cycle
    opened,             \* get_device() was called during the last step
    routine,            \* the rendering routine display() selected in the last cycle
    written,            \* dev.write calls that returned during the last step
    message,            \* the message send_packets built during the last step
    slept,              \* the time.sleep of the last cycle (milliseconds), 0 if none
    call,               \* encoder harness: the pending call
    ret                 \* encoder harness: what the call returned

vars == << pc, exc, openable, dev, VENDOR_ID, PRODUCT_ID, config, leds_indexes,
           display_mode, cycle_duration, update_interval, cpt, leds, colors,
           metrics_colors, time_colors, metrics_min_value, metrics_max_value,
           temp_unit, metrics, opened, routine, written, message, slept,
           call, ret >>

-----------------------------------------------------------------------------
\* Module-level tables and the number encoder (controller.py lines 13-53).

\* digit_mask: rows 0..9 and the "nothing" row 10; row d is digit_mask[d + 1].
digit_mask ==
    << <<1, 1, 1, 0, 1, 1, 1>>,
       <<0, 0, 1, 0, 0, 0, 1>>,
       <<0, 1, 1, 1, 1, 1, 0>>,
       <<0, 1, 1, 1, 0, 1, 1>>,
       <<1, 0, 1, 1, 0, 0, 1>>,
       <<1, 1, 0, 1, 0, 1, 1>>,
       <<1, 1, 0, 1, 1, 1, 1>>,
       <<0, 1, 1, 0, 0, 0, 1>>,
       <<1, 1, 1, 1, 1, 1, 1>>,
       <<1, 1, 1, 1, 0, 1, 1>>,
       <<0, 0, 0, 0, 0, 0, 0>> >>

letter_mask_H == <<1, 0, 1, 1, 1, 0, 1>>

\* numpy row indexing digit_mask[i]: 0..10 are the rows, -11..-1 count from the
\* end.
DigitRow(i) == IF i >= 0 THEN digit_mask[i + 1] ELSE digit_mask[Len(digit_mask) + i + 1]

RECURSIVE Flatten(_)
Flatten(rows) == IF rows = << >> THEN << >> ELSE Head(rows) \o Flatten(Tail(rows))

\* digit_mask[digit_array].flatten(), for a digit_array of valid row indexes
\* (the callers fill with 10 or 0, and digits are 0..9).
MaskOf(digit_array) ==
    Flatten([k \in 1..Len(digit_array) |-> DigitRow(digit_array[k])])

\* int(number/10): a true division truncated. The quotient is exact for every
\* number below 2^53, which covers every integer this model draws.
IntDiv10(number) == number \div 10

RECURSIVE number_to_array(_)
number_to_array(number) ==
    IF number >= 10
    THEN Append(number_to_array(IntDiv10(number)), number % 10)
    ELSE << number >>

Repeat(v, n) == [k \in 1..n |-> v]

\* A variant of get_number_array that appends the padding after the digits;
\* the source pads on the left (line 50).
get_number_array_pad_right(temp, array_length, fill_value) ==
    IF temp < 0
    THEN Repeat(fill_value, array_length)
    ELSE LET narray == number_to_array(temp) IN
         IF Len(narray) # array_length
         THEN IF Len(narray) < array_length
              THEN narray \o Repeat(fill_value, array_length - Len(narray))
              ELSE Tail(narray)
         ELSE narray

get_number_array(temp, array_length, fill_value) ==
    IF temp < 0
    THEN Repeat(fill_value, array_length)
    ELSE LET narray == number_to_array(temp) IN
         IF Len(narray) # array_length
         THEN IF Len(narray) < array_length
              THEN Repeat(fill_value, array_length - Len(narray)) \o narray
              ELSE Tail(narray)
         ELSE narray

-----------------------------------------------------------------------------
\* config.py is imported by controller.py (line 3) and is not among the sources;
\* its tables are taken from the specification's data model: a panel of
\* NUMBER_OF_LEDS LEDs, an index map per layout from semantic key to the LED
\* positions it controls, and the mode set of each layout.

NUMBER_OF_LEDS == 84

Range(a, b) == [k \in 1..(b - a + 1) |-> a + k - 1]

\* Full layout: per device a 2-LED marker, a 21-segment temperature field, the
\* two unit LEDs, a 16-LED utilization field (2 "hundreds" LEDs + 14 segments)
\* and the percent LED.
leds_indexes_big ==
    [ all             |-> Range(1, 84),
      cpu             |-> Range(1, 42),
      gpu             |-> Range(43, 84),
      cpu_led         |-> Range(1, 2),
      cpu_temp        |-> Range(3, 23),
      cpu_celsius     |-> Range(24, 24),
      cpu_fahrenheit  |-> Range(25, 25),
      cpu_usage       |-> Range(26, 41),
      cpu_percent_led |-> Range(42, 42),
      gpu_led         |-> Range(43, 44),
      gpu_temp        |-> Range(45, 65),
      gpu_celsius     |-> Range(66, 66),
      gpu_fahrenheit  |-> Range(67, 67),
      gpu_usage       |-> Range(68, 83),
      gpu_percent_led |-> Range(84, 84) ]

\* Reduced layout: one shared 21-segment digit field.
leds_indexes_small ==
    [ all         |-> Range(1, 31),
      cpu_led     |-> Range(1, 2),
      gpu_led     |-> Range(3, 4),
      celsius     |-> Range(5, 5),
      fahrenheit  |-> Range(6, 6),
      percent_led |-> Range(7, 7),
      digit_frame |-> Range(8, 28) ]

IndexMap(layout) == IF layout = "small" THEN leds_indexes_small ELSE leds_indexes_big

\* For each key of an index map, the place k of every LED position p in the
\* key's position list (pos[k] = p), 0 for a position the key does not hold.
PlaceOf(idx) ==
    [key \in DOMAIN idx |->
        [p \in 1..NUMBER_OF_LEDS |->
            IF \E k \in 1..Len(idx[key]) : idx[key][k] = p
            THEN CHOOSE k \in 1..Len(idx[key]) : idx[key][k] = p
            ELSE 0]]

place_big == PlaceOf(leds_indexes_big)

place_small == PlaceOf(leds_indexes_small)

Place(layout) == IF layout = "small" THEN place_small ELSE place_big

display_modes ==
    {"alternate_time", "metrics", "time", "time_cpu", "time_gpu",
     "alternate_time_with_seconds", "debug_ui"}

display_modes_small ==
    {"alternate_metrics", "cpu_temp", "gpu_temp", "cpu_usage", "gpu_usage", "debug_ui"}

\* device + '_temp' and the like: the keys the routines build by concatenation.
Key ==
    [ cpu |-> [ led |-> "cpu_led", temp |-> "cpu_temp", celsius |-> "cpu_celsius",
                fahrenheit |-> "cpu_fahrenheit", usage |-> "cpu_usage",
                percent_led |-> "cpu_percent_led" ],
      gpu |-> [ led |-> "gpu_led", temp |-> "gpu_temp", celsius |-> "gpu_celsius",
                fahrenheit |-> "gpu_fahrenheit", usage |-> "gpu_usage",
                percent_led |-> "gpu_percent_led" ] ]

-----------------------------------------------------------------------------
\* The Controller object. The operators below take the object as a record s
\* (one field per attribute, named as in the source, plus exc: the exception
\* in flight, "none" while there is none) and return it as the method leaves it.

Ok(s) == s.exc = "none"

Raise(s, e) == [s EXCEPT !.exc = e]

BlankLeds == Repeat(0, NUMBER_OF_LEDS)

\* self.leds[self.leds_indexes[key]] = value, for an array value. A key the
\* index map lacks is the KeyError set_leds catches: nothing is written. An
\* array of another length than the field (and not of length 1, which numpy
\* broadcasts) is a ValueError, which set_leds does not catch.
set_leds(s, key, value) ==
    IF ~Ok(s) THEN s
    ELSE IF key \notin DOMAIN IndexMap(s.leds_indexes) THEN s
    ELSE IF Len(value) # Len(IndexMap(s.leds_indexes)[key]) /\ Len(value) # 1
    THEN Raise(s, "ValueError")
    ELSE [s EXCEPT !.leds =
             [p \in 1..Len(s.leds) |->
                 IF Place(s.leds_indexes)[key][p] = 0 THEN s.leds[p]
                 ELSE IF Len(value) = 1 THEN value[1]
                 ELSE value[Place(s.leds_indexes)[key][p]]]]

\* set_leds with a scalar value (set_leds(key, 1)): written to every position.
set_leds_scalar(s, key, value) == set_leds(s, key, << value >>)

\* The unit LED of set_temp (lines 114-117).
set_unit_led(s, device, unit) ==
    IF unit = "celsius" THEN set_leds_scalar(s, Key[device].celsius, 1)
    ELSE IF unit = "fahrenheit" THEN set_leds_scalar(s, Key[device].fahrenheit, 1)
    ELSE s

\* The branch of set_temp that encodes (lines 108-117).
set_temp_unchecked(s, temperature, device, unit) ==
    set_unit_led(set_leds(s, Key[device].temp,
                          MaskOf(get_number_array(temperature, 3, 10))),
                 device, unit)

\* A variant of set_temp whose bound test is off by one; the source tests
\* temperature < 1000 (line 107).
set_temp_inclusive(s, temperature, device, unit) ==
    IF ~Ok(s) THEN s
    ELSE IF temperature <= 1000
         THEN set_temp_unchecked(s, temperature, device, unit)
         ELSE Raise(s, "TemperatureOutOfRange")

set_temp(s, temperature, device, unit) ==
    IF ~Ok(s) THEN s
    ELSE IF temperature < 1000
         THEN set_temp_unchecked(s, temperature, device, unit)
         ELSE Raise(s, "TemperatureOutOfRange")

\* A variant of the body of set_usage whose "hundreds" test is off by one; the
\* source tests usage >= 100 (line 126).
set_usage_hundreds_above(s, usage, device) ==
    set_leds_scalar(
        set_leds(s, Key[device].usage,
                 Repeat(IF usage > 100 THEN 1 ELSE 0, 2)
                     \o MaskOf(get_number_array(usage, 2, 10))),
        Key[device].percent_led, 1)

\* The branch of set_usage that encodes (lines 123-130).
set_usage_unchecked(s, usage, device) ==
    set_leds_scalar(
        set_leds(s, Key[device].usage,
                 Repeat(IF usage >= 100 THEN 1 ELSE 0, 2)
                     \o MaskOf(get_number_array(usage, 2, 10))),
        Key[device].percent_led, 1)

set_usage(s, usage, device) ==
    IF ~Ok(s) THEN s
    ELSE IF usage < 200
         THEN set_usage_unchecked(s, usage, device)
         ELSE Raise(s, "UsageOutOfRange")

-----------------------------------------------------------------------------
\* The config document (json.load of the config file) is a function from the
\* keys it holds to their values; dict.get(key, default) is Get. load_config
\* returns None when the file is missing or unparsable. Seconds are counted in
\* milliseconds; vendor_id and product_id are hex strings, held as the sequence
\* of their hex digits after the "0x".

None == [is_none |-> TRUE]

Get(doc, key, default) == IF key \in DOMAIN doc THEN doc[key] ELSE default

\* "if self.config:": None and the empty document {} are both false.
Truthy(doc) == doc # None /\ DOMAIN doc # {}

RECURSIVE HexInt(_)
HexInt(digits) ==
    IF digits = << >> THEN 0
    ELSE 16 * HexInt(SubSeq(digits, 1, Len(digits) - 1)) + digits[Len(digits)]

DEFAULT_VENDOR_ID == 1046
DEFAULT_PRODUCT_ID == 32769
DEFAULT_VENDOR_HEX == <<0, 4, 1, 6>>
DEFAULT_PRODUCT_HEX == <<8, 0, 0, 1>>

DEFAULT_MAX == [cpu_temp |-> 90, gpu_temp |-> 90, cpu_usage |-> 100, gpu_usage |-> 100]
DEFAULT_MIN == [cpu_temp |-> 30, gpu_temp |-> 30, cpu_usage |-> 0, gpu_usage |-> 0]

Palette(color) == Repeat(color, NUMBER_OF_LEDS)

\* hid.Device(vendor, product) opens the panel when it is attached and the pair
\* is the panel's; every failure is caught and gives None.
get_device(s, attached) ==
    IF attached /\ s.VENDOR_ID = DEFAULT_VENDOR_ID /\ s.PRODUCT_ID = DEFAULT_PRODUCT_ID
    THEN "open" ELSE "None"

\* A color entry of a config palette is held as color.split("-"): one part for
\* a literal hex color, two for a gradient over the tick, three for a gradient
\* keyed by a time field or a metric. The documents of this model hold no
\* "random" entry. A factor is a fraction [num, den], den > 0.

HexChars == << "0", "1", "2", "3", "4", "5", "6", "7",
               "8", "9", "a", "b", "c", "d", "e", "f" >>

HexValue(c) == (CHOOSE n \in 1..16 : HexChars[n] = c) - 1

\* Channel k (1..3) of a color of 6 lower-case hex digits.
Channel(color, k) ==
    16 * HexValue(SubSeq(color, 2 * k - 1, 2 * k - 1))
       + HexValue(SubSeq(color, 2 * k, 2 * k))

HexByte(n) == HexChars[(n \div 16) + 1] \o HexChars[(n % 16) + 1]

\* utils.interpolate_color is not among the sources: the linear per-channel
\* interpolation of the specification, truncated to a whole channel value.
interpolate_channel(a, b, factor) ==
    IF b >= a THEN a + ((b - a) * factor.num) \div factor.den
    ELSE a - ((a - b) * factor.num) \div factor.den

interpolate_color(start_color, end_color, factor) ==
    HexByte(interpolate_channel(Channel(start_color, 1), Channel(end_color, 1), factor))
    \o HexByte(interpolate_channel(Channel(start_color, 2), Channel(end_color, 2), factor))
    \o HexByte(interpolate_channel(Channel(start_color, 3), Channel(end_color, 3), factor))

\* The clamping of lines 249-254, for a quotient num / den with den # 0.
clamp_factor(num, den) ==
    IF den < 0 THEN
        IF -num > -den THEN [num |-> 1, den |-> 1]
        ELSE IF -num < 0 THEN [num |-> 0, den |-> 1]
        ELSE [num |-> -num, den |-> -den]
    ELSE
        IF num > den THEN [num |-> 1, den |-> 1]
        ELSE IF num < 0 THEN [num |-> 0, den |-> 1]
        ELSE [num |-> num, den |-> den]

\* A variant of the factor of a two-part gradient with the period doubled; the
\* source takes self.cpt % self.cycle_duration (line 258).
two_part_factor_long(t, d) ==
    [num |-> 2 * d - (IF 2 * (t % (2 * d)) >= 2 * d THEN 2 * (t % (2 * d)) - 2 * d
                      ELSE 2 * d - 2 * (t % (2 * d))),
     den |-> 2 * d]

\* The factor of a two-part gradient (line 258), d > 0:
\* 1 - abs((t % d) - d/2) / (d/2), with numerator and denominator doubled.
two_part_factor(t, d) ==
    [num |-> d - (IF 2 * (t % d) >= d THEN 2 * (t % d) - d ELSE d - 2 * (t % d)),
     den |-> d]

\* What the resolution of an entry raises, "none" if it returns (lines
\* 226-262). A metric key the thresholds do not hold is a KeyError at line
\* 244; a tick gradient with cycle_duration 0 is a ZeroDivisionError at line
\* 258; an entry of four parts or more cannot be unpacked at line 256.
entry_error(s, entry, m) ==
    IF Len(entry) = 1 THEN "none"
    ELSE IF Len(entry) = 3
    THEN IF entry[3] \in {"seconds", "minutes", "hours"} THEN "none"
         ELSE IF entry[3] \notin DOMAIN s.metrics_min_value THEN "KeyError"
         ELSE IF s.metrics_min_value[entry[3]] = s.metrics_max_value[entry[3]] THEN "none"
         ELSE IF entry[3] \notin DOMAIN m THEN "KeyError"
         ELSE "none"
    ELSE IF Len(entry) = 2
    THEN IF s.cycle_duration = 0 THEN "ZeroDivisionError" ELSE "none"
    ELSE "ValueError"

\* The factor of a three-part gradient (lines 233-254).
keyed_factor(s, key, m, now) ==
    IF key = "seconds" THEN [num |-> now.second, den |-> 59]
    ELSE IF key = "minutes" THEN [num |-> now.minute, den |-> 59]
    ELSE IF key = "hours" THEN [num |-> now.hour, den |-> 23]
    ELSE IF s.metrics_min_value[key] = s.metrics_max_value[key]
    THEN [num |-> 0, den |-> 1]
    ELSE clamp_factor(m[key] - s.metrics_min_value[key],
                      s.metrics_max_value[key] - s.metrics_min_value[key])

\* The color an entry that raises nothing resolves to (lines 226-262).
resolve_entry(s, entry, m, now) ==
    IF Len(entry) = 1 THEN entry[1]
    ELSE IF Len(entry) = 3
    THEN interpolate_color(entry[1], entry[2], keyed_factor(s, entry[3], m, now))
    ELSE interpolate_color(entry[1], entry[2], two_part_factor(s.cpt, s.cycle_duration))

\* config.get(key, {}).get('colors', ["ffe000"] * NUMBER_OF_LEDS): a document
\* holds the list of a palette under the palette's name.
conf_colors(doc, key) == Get(doc, key, Repeat(<< "ffe000" >>, NUMBER_OF_LEDS))

\* What get_config_colors raises: the error of the first entry that has one.
colors_error(s, entries, m) ==
    IF Len(entries) # NUMBER_OF_LEDS THEN "none"
    ELSE IF \A i \in 1..Len(entries) : entry_error(s, entries[i], m) = "none" THEN "none"
    ELSE entry_error(s, entries[CHOOSE i \in 1..Len(entries) :
                                  /\ entry_error(s, entries[i], m) # "none"
                                  /\ \A j \in 1..(i - 1) :
                                        entry_error(s, entries[j], m) = "none"], m)

\* get_config_colors when it returns: a list of another length than
\* NUMBER_OF_LEDS gives the uniform "ff0000" palette.
get_config_colors(s, entries, m, now) ==
    IF Len(entries) # NUMBER_OF_LEDS
    THEN Palette("ff0000")
    ELSE [i \in 1..Len(entries) |-> resolve_entry(s, entries[i], m, now)]

\* int(cycle_duration / update_interval) of two positive durations.
TicksOf(duration, interval) == duration \div interval

\* update(), lines 271-283: the thresholds and the mode of a loaded document.
set_thresholds(s, doc) ==
    [s EXCEPT
        !.metrics_max_value =
            [cpu_temp  |-> Get(doc, "cpu_max_temp", 90),
             gpu_temp  |-> Get(doc, "gpu_max_temp", 90),
             cpu_usage |-> Get(doc, "cpu_max_usage", 100),
             gpu_usage |-> Get(doc, "gpu_max_usage", 100)],
        !.metrics_min_value =
            [cpu_temp  |-> Get(doc, "cpu_min_temp", 30),
             gpu_temp  |-> Get(doc, "gpu_min_temp", 30),
             cpu_usage |-> Get(doc, "cpu_min_usage", 0),
             gpu_usage |-> Get(doc, "gpu_min_usage", 0)],
        !.display_mode = Get(doc, "display_mode", "metrics")]

\* update(), line 284.
set_metrics_colors(s, entries, m, now) ==
    IF colors_error(s, entries, m) # "none" THEN Raise(s, colors_error(s, entries, m))
    ELSE [s EXCEPT !.metrics_colors = get_config_colors(s, entries, m, now)]

\* update(), line 285.
set_time_colors(s, entries, m, now) ==
    IF ~Ok(s) THEN s
    ELSE IF colors_error(s, entries, m) # "none" THEN Raise(s, colors_error(s, entries, m))
    ELSE [s EXCEPT !.time_colors = get_config_colors(s, entries, m, now)]

\* update(), line 286.
set_update_interval(s, doc) ==
    IF ~Ok(s) THEN s ELSE [s EXCEPT !.update_interval = Get(doc, "update_interval", 100)]

\* update(), lines 271-286: the thresholds, the mode, the palettes and the
\* update interval of a loaded document.
read_config(s, doc, m, now) ==
    set_update_interval(
        set_time_colors(
            set_metrics_colors(set_thresholds(s, doc), conf_colors(doc, "metrics"), m, now),
            conf_colors(doc, "time"), m, now),
        doc)

\* update(), line 287: the cycle duration in ticks; a zero update interval is
\* a division by zero.
set_cycle_duration(s, doc) ==
    IF ~Ok(s) THEN s
    ELSE IF s.update_interval = 0
    THEN Raise(s, "ZeroDivisionError")
    ELSE [s EXCEPT !.cycle_duration =
             TicksOf(Get(doc, "cycle_duration", 5000), s.update_interval)]

\* A variant of set_layout that uses the full layout's fallback for the reduced
\* layout too; the source falls back to alternate_metrics there (line 293).
set_layout_one_fallback(s, doc) ==
    IF ~Ok(s) THEN s
    ELSE IF Get(doc, "layout_mode", "big") = "small"
    THEN [s EXCEPT !.leds_indexes = "small",
                   !.display_mode = IF s.display_mode \notin display_modes_small
                                    THEN "metrics" ELSE s.display_mode]
    ELSE [s EXCEPT !.leds_indexes = "big",
                   !.display_mode = IF s.display_mode \notin display_modes
                                    THEN "metrics" ELSE s.display_mode]

\* A variant of set_layout that keeps an incompatible mode; the source
\* substitutes the layout's fallback (lines 291-298).
set_layout_keep_mode(s, doc) ==
    IF ~Ok(s) THEN s
    ELSE IF Get(doc, "layout_mode", "big") = "small"
    THEN [s EXCEPT !.leds_indexes = "small"]
    ELSE [s EXCEPT !.leds_indexes = "big"]

\* update(), lines 289-298: the index map of the layout, and the fallback mode
\* when the configured mode is not one of the layout's.
set_layout(s, doc) ==
    IF ~Ok(s) THEN s
    ELSE IF Get(doc, "layout_mode", "big") = "small"
    THEN [s EXCEPT !.leds_indexes = "small",
                   !.display_mode = IF s.display_mode \notin display_modes_small
                                    THEN "alternate_metrics" ELSE s.display_mode]
    ELSE [s EXCEPT !.leds_indexes = "big",
                   !.display_mode = IF s.display_mode \notin display_modes
                                    THEN "metrics" ELSE s.display_mode]

\* update(), lines 269-298: the branch of a loaded document.
update_loaded(s, doc, m, now) ==
    set_layout(set_cycle_duration(read_config(s, doc, m, now), doc), doc)

\* update(), lines 299-320: the built-in defaults.
update_defaults(s) ==
    [s EXCEPT !.metrics_max_value = DEFAULT_MAX,
              !.metrics_min_value = DEFAULT_MIN,
              !.display_mode = "metrics",
              !.time_colors = Palette("ffe000"),
              !.metrics_colors = Palette("ff0000"),
              !.update_interval = 100,
              !.cycle_duration = TicksOf(5000, 100),
              !.leds_indexes = "big"]

\* self.VENDOR_ID = VENDOR_ID; self.PRODUCT_ID = PRODUCT_ID; self.dev =
\* self.get_device() (lines 325-327).
reopen(s, vendor, product, attached) ==
    [s EXCEPT !.VENDOR_ID = vendor, !.PRODUCT_ID = product,
              !.dev = get_device([VENDOR_ID |-> vendor, PRODUCT_ID |-> product], attached),
              !.opened = TRUE]

\* A variant of the test of update() that re-opens only when both ids differ;
\* the source re-opens when either does (line 323).
update_device_both(s, vendor, product, attached) ==
    IF ~Ok(s) THEN s
    ELSE IF vendor # s.VENDOR_ID /\ product # s.PRODUCT_ID
    THEN reopen(s, vendor, product, attached)
    ELSE s

\* update(), lines 323-327: the device is re-opened when the resolved pair
\* differs from the pair in use.
update_device(s, vendor, product, attached) ==
    IF ~Ok(s) THEN s
    ELSE IF vendor # s.VENDOR_ID \/ product # s.PRODUCT_ID
    THEN reopen(s, vendor, product, attached)
    ELSE s

\* update(), lines 266-267: the LED buffer is blanked and the config loaded.
reload(s, doc) == [s EXCEPT !.leds = BlankLeds, !.config = doc]

\* update(): doc is what load_config returns in this call, m and now what the
\* metrics provider and the clock return while the palettes are resolved.
update(s, doc, attached, m, now) ==
    IF ~Ok(s) THEN s
    ELSE IF Truthy(doc)
    THEN update_device(update_loaded(reload(s, doc), doc, m, now),
                       HexInt(Get(doc, "vendor_id", DEFAULT_VENDOR_HEX)),
                       HexInt(Get(doc, "product_id", DEFAULT_PRODUCT_HEX)),
                       attached)
    ELSE update_device(update_defaults(reload(s, doc)), DEFAULT_VENDOR_ID,
                       DEFAULT_PRODUCT_ID, attached)

-----------------------------------------------------------------------------
\* The rendering routines. m is what self.metrics.get_metrics() returns in this
\* cycle, now is datetime.datetime.now().

\* self.colors[self.leds_indexes[key]] = palette[self.leds_indexes[key]]: a key
\* the index map lacks is a KeyError nothing catches.
set_colors(s, key, palette) ==
    IF ~Ok(s) THEN s
    ELSE IF key \notin DOMAIN IndexMap(s.leds_indexes) THEN Raise(s, "KeyError")
    ELSE [s EXCEPT !.colors =
             [p \in 1..Len(s.colors) |->
                 IF Place(s.leds_indexes)[key][p] = 0 THEN s.colors[p]
                 ELSE palette[p]]]

\* self.config.get(...) on the None a failed load left is an AttributeError.
UnitsOf(doc) ==
    [cpu |-> Get(doc, "cpu_temperature_unit", "celsius"),
     gpu |-> Get(doc, "gpu_temperature_unit", "celsius")]

\* One pass of the loop of display_metrics (lines 138-141).
display_metrics_device(s, device, m) ==
    set_colors(
        set_usage(
            set_temp(set_leds_scalar(s, Key[device].led, 1),
                     m[Key[device].temp], device, s.temp_unit[device]),
            m[Key[device].usage], device),
        device, s.metrics_colors)

RECURSIVE display_metrics_loop(_, _, _)
display_metrics_loop(s, devices, m) ==
    IF devices = << >> \/ ~Ok(s) THEN s
    ELSE display_metrics_loop(display_metrics_device(s, Head(devices), m),
                              Tail(devices), m)

display_metrics(s, devices, m) ==
    IF ~Ok(s) THEN s
    ELSE IF s.config = None THEN Raise(s, "AttributeError")
    ELSE display_metrics_loop([s EXCEPT !.temp_unit = UnitsOf(s.config)], devices, m)

display_time(s, device, now) ==
    set_colors(
        set_leds(
            set_leds(s, Key[device].temp,
                     MaskOf(get_number_array(now.hour, 2, 0)) \o letter_mask_H),
            Key[device].usage,
            <<0, 0>> \o MaskOf(get_number_array(now.minute, 2, 0))),
        device, s.time_colors)

\* self.colors = palette: the whole color buffer is replaced.
use_palette(s, palette) == IF Ok(s) THEN [s EXCEPT !.colors = palette] ELSE s

display_time_with_seconds(s, now) ==
    use_palette(
        set_leds(
            set_leds(
                set_leds(s, "cpu_temp",
                         MaskOf(get_number_array(now.hour, 2, 0)) \o letter_mask_H),
                "gpu_usage",
                <<0, 0>> \o MaskOf(get_number_array(now.second, 2, 0))),
            "cpu_usage",
            <<0, 0>> \o MaskOf(get_number_array(now.minute, 2, 0))),
        s.time_colors)

display_temp_small(s, device, m) ==
    IF ~Ok(s) THEN s
    ELSE IF s.config = None THEN Raise(s, "AttributeError")
    ELSE set_leds(
             use_palette(
                 set_leds_scalar(
                     set_leds_scalar(s, UnitsOf(s.config)[device], 1),
                     Key[device].led, 1),
                 s.metrics_colors),
             "digit_frame",
             MaskOf(get_number_array(m[Key[device].temp], 3, 10)))

display_usage_small(s, device, m) ==
    IF ~Ok(s) THEN s
    ELSE set_leds(
             use_palette(
                 set_leds_scalar(
                     set_leds_scalar(s, "percent_led", 1),
                     Key[device].led, 1),
                 s.metrics_colors),
             "digit_frame",
             MaskOf(get_number_array(m[Key[device].usage], 3, 10)))

debug_ui(s) ==
    [s EXCEPT !.colors = s.metrics_colors, !.leds = Repeat(1, NUMBER_OF_LEDS)]

\* A variant of the selection whose two-phase tests include the boundary tick;
\* the source tests self.cpt < self.cycle_duration (lines 338 and 355).
Selected_inclusive(s) ==
    IF s.display_mode = "alternate_time"
    THEN IF s.cpt <= s.cycle_duration THEN "time_cpu+metrics_gpu" ELSE "time_gpu+metrics_cpu"
    ELSE IF s.display_mode = "alternate_time_with_seconds"
    THEN IF s.cpt <= s.cycle_duration THEN "time_with_seconds" ELSE "metrics"
    ELSE IF s.display_mode = "alternate_metrics"
    THEN IF 2 * s.cpt < s.cycle_duration THEN "cpu_temp"
         ELSE IF s.cpt < s.cycle_duration THEN "gpu_temp"
         ELSE IF 2 * s.cpt < 3 * s.cycle_duration THEN "cpu_usage"
         ELSE "gpu_usage"
    ELSE "metrics"

\* The routine display() selects (lines 337-380), by name.
Selected(s) ==
    IF s.display_mode = "alternate_time"
    THEN IF s.cpt < s.cycle_duration THEN "time_cpu+metrics_gpu" ELSE "time_gpu+metrics_cpu"
    ELSE IF s.display_mode = "metrics" THEN "metrics"
    ELSE IF s.display_mode = "time" THEN "time_with_seconds"
    ELSE IF s.display_mode = "time_cpu" THEN "time_gpu+metrics_cpu"
    ELSE IF s.display_mode = "time_gpu" THEN "time_cpu+metrics_gpu"
    ELSE IF s.display_mode = "alternate_time_with_seconds"
    THEN IF s.cpt < s.cycle_duration THEN "time_with_seconds" ELSE "metrics"
    ELSE IF s.display_mode = "alternate_metrics"
    THEN IF 2 * s.cpt < s.cycle_duration THEN "cpu_temp"
         ELSE IF s.cpt < s.cycle_duration THEN "gpu_temp"
         ELSE IF 2 * s.cpt < 3 * s.cycle_duration THEN "cpu_usage"
         ELSE "gpu_usage"
    ELSE IF s.display_mode \in {"cpu_temp", "gpu_temp", "cpu_usage", "gpu_usage", "debug_ui"}
    THEN s.display_mode
    ELSE "unknown"

\* The calls of the selected routine.
run_routine(s, m, now) ==
    IF s.routine = "time_cpu+metrics_gpu"
    THEN display_metrics(display_time(s, "cpu", now), << "gpu" >>, m)
    ELSE IF s.routine = "time_gpu+metrics_cpu"
    THEN display_metrics(display_time(s, "gpu", now), << "cpu" >>, m)
    ELSE IF s.routine = "metrics" THEN display_metrics(s, << "cpu", "gpu" >>, m)
    ELSE IF s.routine = "time_with_seconds" THEN display_time_with_seconds(s, now)
    ELSE IF s.routine \in {"cpu_temp", "gpu_temp"}
    THEN display_temp_small(s, IF s.routine = "cpu_temp" THEN "cpu" ELSE "gpu", m)
    ELSE IF s.routine \in {"cpu_usage", "gpu_usage"}
    THEN display_usage_small(s, IF s.routine = "cpu_usage" THEN "cpu" ELSE "gpu", m)
    ELSE IF s.routine = "debug_ui" THEN debug_ui(s)
    ELSE s

\* The rendering step of display(): the selected routine fills the buffers.
render(s, m, now) ==
    IF ~Ok(s) THEN s ELSE run_routine([s EXCEPT !.routine = Selected(s)], m, now)

\* A variant of the tick that wraps at cycle_duration; the source wraps at
\* cycle_duration*2 (line 382).
tick_short(s) ==
    IF ~Ok(s) THEN s
    ELSE IF s.cycle_duration = 0 THEN Raise(s, "ZeroDivisionError")
    ELSE [s EXCEPT !.cpt = (s.cpt + 1) % s.cycle_duration]

\* self.cpt = (self.cpt + 1) % (self.cycle_duration*2), line 382.
tick(s) ==
    IF ~Ok(s) THEN s
    ELSE IF s.cycle_duration * 2 = 0 THEN Raise(s, "ZeroDivisionError")
    ELSE [s EXCEPT !.cpt = (s.cpt + 1) % (s.cycle_duration * 2)]

\* A variant of the message of send_packets that ignores the LED buffer; the
\* source sends "000000" for an LED whose entry is 0 (line 98).
MessageOf_all_lit(s) == [i \in 1..NUMBER_OF_LEDS |-> s.colors[i]]

\* The per-LED hex colors send_packets joins into its message (line 98).
MessageOf(s) ==
    [i \in 1..NUMBER_OF_LEDS |-> IF s.leds[i] # 0 THEN s.colors[i] ELSE "000000"]

\* The per-LED hex colors of line 98 for a panel of n LEDs: NUMBER_OF_LEDS is a
\* number imported from config, and the buffers are built with that many
\* entries (lines 63 and 73).
MessageOfCount(s, n) ==
    [i \in 1..n |-> IF s.leds[i] # 0 THEN s.colors[i] ELSE "000000"]

\* self.HEADER (line 62): 40 hex digits, 20 bytes.
HEADER == "dadbdcdd000000000000000000000000fc0000ff"

\* parts[a] .. parts[b] one after the other, by halves.
RECURSIVE JoinRange(_, _, _)
JoinRange(parts, a, b) ==
    IF a > b THEN ""
    ELSE IF a = b THEN parts[a]
    ELSE JoinRange(parts, a, (a + b) \div 2)
            \o JoinRange(parts, (a + b) \div 2 + 1, b)

\* "".join(parts)
Join(parts) == JoinRange(parts, 1, Len(parts))

\* The Python slice s[a:b] of a string, 0 <= a: positions a .. b - 1, cut at the
\* end of s.
Slice(s, a, b) ==
    IF a >= Len(s) \/ b <= a THEN ""
    ELSE SubSeq(s, a + 1, IF b > Len(s) THEN Len(s) ELSE b)

\* bytes.fromhex(h) of an even number of hex digits: one byte per two digits.
\* Every color of this model is a string of 6 hex digits.
ByteLen(h) == Len(h) \div 2

\* A variant of packet0 that takes 128 digits of the message; the source takes
\* 128 - len(self.HEADER) (line 99).
packet0_full(msg) == HEADER \o Slice(msg, 0, 128)

\* packet0 before bytes.fromhex (line 99).
packet0(msg) == HEADER \o Slice(msg, 0, 128 - Len(HEADER))

\* A variant of the packets of the loop without the leading marker; the source
\* prepends '00' (line 103).
packet_unmarked(msg, i) == Slice(Slice(msg, 88, Len(msg)), i * 128, (i + 1) * 128)

\* packet of the loop of send_packets before bytes.fromhex, i in range(0, 4)
\* (lines 101-103).
packet(msg, i) == "00" \o Slice(Slice(msg, 88, Len(msg)), i * 128, (i + 1) * 128)

PACKETS == 5

\* The hex digits of the packets send_packets hands to dev.write, in the order
\* of the calls, for the per-LED colors of line 98.
PacketsOf(message_parts) ==
    [k \in 1..PACKETS |->
        IF k = 1 THEN packet0(Join(message_parts))
        ELSE packet(Join(message_parts), k - 2)]

\* send_packets: the message is built, then the five dev.write calls are made,
\* the first failing_write of which return; write number failing_write + 1
\* raises when failing_write < PACKETS, and nothing in send_packets or display
\* catches it. With self.dev None the first self.dev.write is an
\* AttributeError.
send_packets(s, failing_write) ==
    IF ~Ok(s) THEN s
    ELSE IF s.dev = "None"
    THEN [s EXCEPT !.message = MessageOf(s), !.exc = "AttributeError"]
    ELSE IF failing_write < PACKETS
    THEN [s EXCEPT !.message = MessageOf(s), !.written = failing_write,
                   !.exc = "HIDException"]
    ELSE [s EXCEPT !.message = MessageOf(s), !.written = PACKETS]

NO_DEVICE_SLEEP == 5000

\* time.sleep(self.update_interval), line 384.
sleep_interval(s) ==
    IF Ok(s) THEN [s EXCEPT !.slept = s.slept + s.update_interval] ELSE s

\* The body of the loop of display() after update(), lines 333-384.
display_after_update(s, m, now, failing_write) ==
    IF ~Ok(s) THEN s
    ELSE IF s.dev = "None"
    THEN sleep_interval([s EXCEPT !.slept = NO_DEVICE_SLEEP])
    ELSE sleep_interval(send_packets(tick(render(s, m, now)), failing_write))

\* One iteration of the loop of display(), lines 331-384. doc is what
\* load_config returns in update() (the result of the load of line 331 is
\* overwritten by update() before anything reads it).
display_iteration(s, doc, attached, m, now, failing_write) ==
    display_after_update(update(s, doc, attached, m, now), m, now, failing_write)

\* display_digit_test in the reduced layout (lines 156-169): cycle is
\* int(time.time() / 4) % 4.
digit_test_small(s, test_digit, cycle) ==
    use_palette(
        set_leds(
            set_leds_scalar(
                set_leds_scalar(s, Key[IF cycle % 2 = 0 THEN "cpu" ELSE "gpu"].led, 1),
                IF cycle < 2 THEN "celsius" ELSE "percent_led", 1),
            "digit_frame",
            MaskOf(get_number_array(test_digit * 111, 3, 10))),
        s.metrics_colors)

\* One pass of the loop of display_digit_test in the full layout (lines
\* 173-178).
digit_test_device(s, device, test_digit) ==
    set_colors(
        set_usage(
            set_temp(set_leds_scalar(s, Key[device].led, 1),
                     test_digit * 111, device, "celsius"),
            test_digit * 11, device),
        device, s.metrics_colors)

\* display_digit_test (lines 143-178): test_digit is (int(time.time() / 2) % 9)
\* + 1. self.config.get on the None a failed load left is an AttributeError.
display_digit_test(s, test_digit, cycle) ==
    IF ~Ok(s) THEN s
    ELSE IF s.config = None THEN Raise(s, "AttributeError")
    ELSE IF Get(s.config, "layout_mode", "None") = "small"
    THEN digit_test_small(s, test_digit, cycle)
    ELSE digit_test_device(digit_test_device(s, "cpu", test_digit), "gpu", test_digit)

TEST_SLEEP == 100

\* time.sleep(0.1), line 400.
sleep_test(s) == IF Ok(s) THEN [s EXCEPT !.slept = TEST_SLEEP] ELSE s

\* One iteration of the test loop of main (lines 397-400).
test_iteration(s, doc, attached, m, now, test_digit, cycle, failing_write) ==
    sleep_test(
        send_packets(
            display_digit_test(
                update([s EXCEPT !.routine = "digit_test"], doc, attached, m, now),
                test_digit, cycle),
            failing_write))

\* The handler of KeyboardInterrupt in main (lines 401-404): Controller has no
\* method clear (nor show), so controller.clear() is an AttributeError.
interrupt_handler(s) == Raise([s EXCEPT !.routine = "interrupt"], "AttributeError")

\* Controller.__init__, lines 57-74. Its update() is the first to load the
\* config.
construct(doc, attached, m, now) ==
    update([ dev |-> get_device([VENDOR_ID |-> DEFAULT_VENDOR_ID,
                                 PRODUCT_ID |-> DEFAULT_PRODUCT_ID], attached),
             VENDOR_ID |-> DEFAULT_VENDOR_ID, PRODUCT_ID |-> DEFAULT_PRODUCT_ID,
             config |-> None, leds_indexes |-> "big", display_mode |-> "None",
             cycle_duration |-> 50, update_interval |-> 100, cpt |-> 0,
             leds |-> BlankLeds, colors |-> Palette("ffe000"),
             metrics_colors |-> << >>, time_colors |-> << >>,
             metrics_min_value |-> << >>, metrics_max_value |-> << >>,
             temp_unit |-> [cpu |-> "celsius", gpu |-> "celsius"],
             exc |-> "none", opened |-> TRUE, routine |-> "none",
             written |-> 0, message |-> << >>, slept |-> 0 ],
           doc, attached, m, now)

-----------------------------------------------------------------------------
\* The Controller object as a record, and the state __init__ sets before its
\* first update() (lines 57-73).

Self ==
    [ dev |-> dev, VENDOR_ID |-> VENDOR_ID, PRODUCT_ID |-> PRODUCT_ID,
      config |-> config, leds_indexes |-> leds_indexes,
      display_mode |-> display_mode, cycle_duration |-> cycle_duration,
      update_interval |-> update_interval, cpt |-> cpt, leds |-> leds,
      colors |-> colors, metrics_colors |-> metrics_colors,
      time_colors |-> time_colors, metrics_min_value |-> metrics_min_value,
      metrics_max_value |-> metrics_max_value, temp_unit |-> temp_unit,
      exc |-> "none", opened |-> FALSE, routine |-> "none", written |-> 0,
      message |-> << >>, slept |-> 0 ]

-----------------------------------------------------------------------------
\* The display loop as a state machine. A step of the program is one iteration
\* of the loop of display(); the environment attaches and detaches the panel
\* between iterations. The program starts in the state Controller.__init__
\* leaves, main() having taken the branch of controller.display().

\* The object a step of a loop leaves becomes the next state.
BecomesIn(s, loop) ==
    /\ pc' = IF Ok(s) THEN loop ELSE "crashed"
    /\ exc' = s.exc
    /\ dev' = s.dev
    /\ VENDOR_ID' = s.VENDOR_ID
    /\ PRODUCT_ID' = s.PRODUCT_ID
    /\ config' = s.config
    /\ leds_indexes' = s.leds_indexes
    /\ display_mode' = s.display_mode
    /\ cycle_duration' = s.cycle_duration
    /\ update_interval' = s.update_interval
    /\ cpt' = s.cpt
    /\ leds' = s.leds
    /\ colors' = s.colors
    /\ metrics_colors' = s.metrics_colors
    /\ time_colors' = s.time_colors
    /\ metrics_min_value' = s.metrics_min_value
    /\ metrics_max_value' = s.metrics_max_value
    /\ temp_unit' = s.temp_unit
    /\ opened' = s.opened
    /\ routine' = s.routine
    /\ written' = s.written
    /\ message' = s.message
    /\ slept' = s.slept

\* The state __init__ leaves, for the document its update() loaded, main()
\* going on to the given loop.
ConstructedIn(s, loop) ==
    /\ pc = IF Ok(s) THEN loop ELSE "crashed"
    /\ exc = s.exc
    /\ dev = s.dev
    /\ VENDOR_ID = s.VENDOR_ID
    /\ PRODUCT_ID = s.PRODUCT_ID
    /\ config = s.config
    /\ leds_indexes = s.leds_indexes
    /\ display_mode = s.display_mode
    /\ cycle_duration = s.cycle_duration
    /\ update_interval = s.update_interval
    /\ cpt = s.cpt
    /\ leds = s.leds
    /\ colors = s.colors
    /\ metrics_colors = s.metrics_colors
    /\ time_colors = s.time_colors
    /\ metrics_min_value = s.metrics_min_value
    /\ metrics_max_value = s.metrics_max_value
    /\ temp_unit = s.temp_unit
    /\ opened = s.opened
    /\ routine = s.routine
    /\ written = s.written
    /\ message = s.message
    /\ slept = s.slept

\* A step of the display loop.
Becomes(s) == BecomesIn(s, "display")

\* The state __init__ leaves when main() goes on to the display loop.
Constructed(s) == ConstructedIn(s, "display")

\* The clock and the sample at construction and in the cycles.
Morning == [hour |-> 9, minute |-> 5, second |-> 7]

Normal == [cpu_temp |-> 57, gpu_temp |-> 42, cpu_usage |-> 5, gpu_usage |-> 105]

\* No sample has been taken yet.
NoSample == [cpu_temp |-> -1, gpu_temp |-> -1, cpu_usage |-> -1, gpu_usage |-> -1]

NoCall == [op |-> "none", value |-> 0, length |-> 0, fill |-> 0,
           device |-> "cpu", unit |-> "celsius"]

InitIn(docs, loop) ==
    /\ openable \in BOOLEAN
    /\ \E doc \in docs :
          \E s \in {construct(doc, openable, Normal, Morning)} : ConstructedIn(s, loop)
    /\ metrics = NoSample
    /\ call = NoCall
    /\ ret = [exc |-> "none", val |-> << >>]

\* main() with test_mode false: the display loop.
InitOver(docs) == InitIn(docs, "display")

\* One iteration of the display loop. A write to a handle whose panel is gone
\* fails at once; a write to an attached panel may fail as well.
DisplayCycle(doc, m, now, failing_write) ==
    /\ pc = "display"
    /\ \E s \in {display_iteration(Self, doc, openable, m, now, failing_write)} :
           /\ failing_write < PACKETS =>
                 s.exc = "HIDException" /\ s.written = failing_write
           /\ (~openable /\ s.routine # "none" /\ s.exc \in {"none", "HIDException"})
                 => failing_write = 0
           /\ Becomes(s)
    /\ metrics' = m
    /\ UNCHANGED << openable, call, ret >>

\* The panel is attached: hid.Device(...) succeeds from now on.
Attach ==
    /\ pc = "display"
    /\ ~openable
    /\ openable' = TRUE
    /\ UNCHANGED << pc, exc, dev, VENDOR_ID, PRODUCT_ID, config, leds_indexes,
                    display_mode, cycle_duration, update_interval, cpt, leds,
                    colors, metrics_colors, time_colors, metrics_min_value,
                    metrics_max_value, temp_unit, metrics, opened, routine,
                    written, message, slept, call, ret >>

\* The panel is detached: an open handle stays, its writes fail.
Detach ==
    /\ pc = "display"
    /\ openable
    /\ openable' = FALSE
    /\ UNCHANGED << pc, exc, dev, VENDOR_ID, PRODUCT_ID, config, leds_indexes,
                    display_mode, cycle_duration, update_interval, cpt, leds,
                    colors, metrics_colors, time_colors, metrics_min_value,
                    metrics_max_value, temp_unit, metrics, opened, routine,
                    written, message, slept, call, ret >>

\* Inputs.

ALT_VENDOR_HEX == <<1, 2, 3, 4>>

\* A document holding no key update() reads a value from: every default.
DocPlain == ("metrics_update_interval" :> 500)

\* A document that overrides the id pair only; no panel has this pair.
DocAltIds == ("vendor_id" :> ALT_VENDOR_HEX) @@ ("product_id" :> DEFAULT_PRODUCT_HEX)

\* A document that overrides everything update() reads but the id pair.
DocCustom ==
    ("display_mode" :> "cpu_temp") @@ ("layout_mode" :> "small")
    @@ ("cpu_max_temp" :> 80) @@ ("gpu_max_temp" :> 85)
    @@ ("cpu_max_usage" :> 90) @@ ("gpu_max_usage" :> 95)
    @@ ("cpu_min_temp" :> 20) @@ ("gpu_min_temp" :> 25)
    @@ ("cpu_min_usage" :> 5) @@ ("gpu_min_usage" :> 10)
    @@ ("metrics" :> Repeat(<< "00ff00" >>, NUMBER_OF_LEDS))
    @@ ("time" :> Repeat(<< "0000ff" >>, NUMBER_OF_LEDS))
    @@ ("update_interval" :> 500) @@ ("cycle_duration" :> 1500)
    @@ ("cpu_temperature_unit" :> "fahrenheit")

\* A document whose cycle is shorter than its update interval: 0 ticks.
DocShortCycle == ("update_interval" :> 1000) @@ ("cycle_duration" :> 500)

Docs == {None, DocPlain, DocAltIds, DocCustom, DocShortCycle}

Samples == {Normal}

Times == {Morning}

WriteOutcomes == 0..PACKETS

Init == InitOver(Docs)

Next ==
    \/ \E doc \in Docs, m \in Samples, now \in Times, failing_write \in WriteOutcomes :
          DisplayCycle(doc, m, now, failing_write)
    \/ Attach
    \/ Detach

Spec == Init /\ [][Next]_vars

-----------------------------------------------------------------------------
\* The display loop over every configured mode in either layout, with samples
\* at and beyond the encoder's bounds; the panel stays as it was at start and
\* every write succeeds.

ConfigModes == display_modes \cup display_modes_small \cup {"bogus"}

\* The modes a branch of display() handles (lines 337-376).
RecognisedModes == display_modes \cup display_modes_small

ModeDoc(mode, layout) ==
    ("display_mode" :> mode) @@ ("layout_mode" :> layout)
    @@ ("update_interval" :> 1000) @@ ("cycle_duration" :> 2000)

\* A document that names no display mode.
LayoutDoc(layout) ==
    ("layout_mode" :> layout) @@ ("update_interval" :> 1000) @@ ("cycle_duration" :> 2000)

ModeDocs ==
    {ModeDoc(mode, layout) : mode \in ConfigModes, layout \in {"big", "small"}}
    \cup {LayoutDoc(layout) : layout \in {"big", "small"}}
    \cup {None}

HotCpu  == [cpu_temp |-> 1000, gpu_temp |-> 42, cpu_usage |-> 5, gpu_usage |-> 105]
HotGpu  == [cpu_temp |-> 57, gpu_temp |-> 1234, cpu_usage |-> 5, gpu_usage |-> 105]
BusyCpu == [cpu_temp |-> 57, gpu_temp |-> 42, cpu_usage |-> 200, gpu_usage |-> 105]
BusyGpu == [cpu_temp |-> 57, gpu_temp |-> 42, cpu_usage |-> 5, gpu_usage |-> 250]

ModeSamples == {Normal, HotCpu, HotGpu, BusyCpu, BusyGpu}

InitModes == InitOver(ModeDocs)

NextModes ==
    \E doc \in ModeDocs, m \in ModeSamples : DisplayCycle(doc, m, Morning, PACKETS)

SpecModes == InitModes /\ [][NextModes]_vars

-----------------------------------------------------------------------------
\* The encoder on its own: get_number_array, set_temp and set_usage applied
\* once to drawn arguments, set_temp and set_usage on a freshly blanked LED
\* buffer under either index map.

EncMaxValue == 1100
EncMaxLen == 3
EncFills == {-1, 0, 7, 10}
GradMaxD == 8

EncPending == [exc |-> "pending", val |-> << >>]

EncCalls ==
    [op : {"get_number_array"}, value : -2..EncMaxValue, length : 1..EncMaxLen,
     fill : EncFills, device : {"cpu"}, unit : {"celsius"}]
    \cup
    [op : {"set_temp"}, value : -2..EncMaxValue, length : {3}, fill : {10},
     device : {"cpu", "gpu"}, unit : {"celsius", "fahrenheit"}]
    \cup
    [op : {"set_usage"}, value : -2..EncMaxValue, length : {2}, fill : {10},
     device : {"cpu", "gpu"}, unit : {"celsius"}]
    \cup
    {c \in [op : {"two_part_factor"}, value : 0..(2 * GradMaxD - 1),
            length : 1..GradMaxD, fill : {0}, device : {"cpu"}, unit : {"celsius"}] :
        c.value < 2 * c.length}

EncInit ==
    /\ pc = "enc"
    /\ exc = "none"
    /\ call \in EncCalls
    /\ ret = EncPending
    /\ leds = BlankLeds
    /\ leds_indexes \in {"big", "small"}
    /\ call.op \in {"get_number_array", "two_part_factor"} => leds_indexes = "big"
    /\ openable = FALSE
    /\ dev = "None"
    /\ VENDOR_ID = 1046
    /\ PRODUCT_ID = 32769
    /\ config = [is_none |-> TRUE]
    /\ display_mode = "None"
    /\ cycle_duration = 50
    /\ update_interval = 100
    /\ cpt = 0
    /\ colors = Repeat("ffe000", NUMBER_OF_LEDS)
    /\ metrics_colors = << >>
    /\ time_colors = << >>
    /\ metrics_min_value = << >>
    /\ metrics_max_value = << >>
    /\ temp_unit = [cpu |-> "celsius", gpu |-> "celsius"]
    /\ metrics = << >>
    /\ opened = FALSE
    /\ routine = "none"
    /\ written = 0
    /\ message = << >>
    /\ slept = 0

EncFrame ==
    << exc, openable, dev, VENDOR_ID, PRODUCT_ID, config, leds_indexes,
       display_mode, cycle_duration, update_interval, cpt, colors,
       metrics_colors, time_colors, metrics_min_value, metrics_max_value,
       temp_unit, metrics, opened, routine, written, message, slept, call >>

EncGetNumberArray ==
    /\ pc = "enc"
    /\ call.op = "get_number_array"
    /\ ret' = [exc |-> "none",
               val |-> get_number_array(call.value, call.length, call.fill)]
    /\ pc' = "enc_done"
    /\ UNCHANGED << EncFrame, leds >>

EncSetTemp ==
    /\ pc = "enc"
    /\ call.op = "set_temp"
    /\ LET s == set_temp(Self, call.value, call.device, call.unit)
       IN  /\ leds' = s.leds
           /\ ret' = [exc |-> s.exc, val |-> << >>]
    /\ pc' = "enc_done"
    /\ UNCHANGED EncFrame

EncSetUsage ==
    /\ pc = "enc"
    /\ call.op = "set_usage"
    /\ LET s == set_usage(Self, call.value, call.device)
       IN  /\ leds' = s.leds
           /\ ret' = [exc |-> s.exc, val |-> << >>]
    /\ pc' = "enc_done"
    /\ UNCHANGED EncFrame

\* The factor of a two-part gradient at tick call.value of a cycle of
\* call.length ticks.
EncFactor ==
    /\ pc = "enc"
    /\ call.op = "two_part_factor"
    /\ ret' = [exc |-> "none",
               val |-> << two_part_factor(call.value, call.length).num,
                          two_part_factor(call.value, call.length).den >>]
    /\ pc' = "enc_done"
    /\ UNCHANGED << EncFrame, leds >>

EncNext == EncGetNumberArray \/ EncSetTemp \/ EncSetUsage \/ EncFactor

SpecEnc == EncInit /\ [][EncNext]_vars

-----------------------------------------------------------------------------
\* Properties of the encoder (specification SpecEnc).

RECURSIVE Pow10(_)
Pow10(n) == IF n = 0 THEN 1 ELSE 10 * Pow10(n - 1)

\* The decimal digit of v at the place of position k of a length-long field.
PlaceDigit(v, length, k) == (v \div Pow10(length - k)) % 10

\* Position k of a length-long field is padding: v has no digit that high.
IsPadding(v, length, k) == k < length /\ v < Pow10(length - k)

BlankRow == <<0, 0, 0, 0, 0, 0, 0>>

EncReturned(op) == pc = "enc_done" /\ call.op = op

\* The LEDs of the buffer at the positions of a field of the full layout.
Field(key) == [k \in 1..Len(leds_indexes_big[key]) |-> leds[leds_indexes_big[key][k]]]

\* C3: set_temp raises the out-of-range error exactly when temperature >= 1000
\* and set_usage exactly when usage >= 200; below the bound, negative values
\* included, the call returns without any error.
C3_RaisesExactlyAtBound ==
    /\ EncReturned("set_temp") =>
          /\ (ret.exc = "TemperatureOutOfRange") <=> (call.value >= 1000)
          /\ call.value < 1000 => ret.exc = "none"
    /\ EncReturned("set_usage") =>
          /\ (ret.exc = "UsageOutOfRange") <=> (call.value >= 200)
          /\ call.value < 200 => ret.exc = "none"

\* C3 witness: set_temp(1000) has raised the out-of-range error.
C3_Witness ==
    /\ EncReturned("set_temp")
    /\ call.value = 1000
    /\ ret.exc = "TemperatureOutOfRange"

\* C8: for 0 <= v < 10^length, get_number_array(v, length, fill) is the decimal
\* digits of v, most significant first, left-padded with fill to exactly length
\* entries; with fill 10 the digit-mask rows of the result are the rows of the
\* digits, with the all-off row at every padding position. 57 at length 3 and
\* fill 10 gives [10, 5, 7].
C8_DigitsLeftPadded ==
    (EncReturned("get_number_array") /\ call.value >= 0
        /\ call.value < Pow10(call.length)) =>
       /\ Len(ret.val) = call.length
       /\ \A k \in 1..call.length :
             ret.val[k] = IF IsPadding(call.value, call.length, k)
                          THEN call.fill
                          ELSE PlaceDigit(call.value, call.length, k)
       /\ call.fill = 10 =>
             /\ Len(MaskOf(ret.val)) = 7 * call.length
             /\ \A k \in 1..call.length :
                   SubSeq(MaskOf(ret.val), 7 * (k - 1) + 1, 7 * k) =
                      IF IsPadding(call.value, call.length, k)
                      THEN BlankRow
                      ELSE digit_mask[PlaceDigit(call.value, call.length, k) + 1]
       /\ (call.value = 57 /\ call.length = 3 /\ call.fill = 10) =>
             ret.val = <<10, 5, 7>>

\* C8 witness: get_number_array(57, 3, 10) has returned a padded result.
C8_Witness ==
    /\ EncReturned("get_number_array")
    /\ call.value = 57 /\ call.length = 3 /\ call.fill = 10
    /\ ret.val[1] = 10

\* C9 (as claimed): get_number_array always returns exactly length entries,
\* the length least-significant digits when the value has more digits.
C9_AlwaysLengthEntries ==
    (EncReturned("get_number_array") /\ call.value >= 0) =>
       /\ Len(ret.val) = call.length
       /\ call.value >= Pow10(call.length) =>
             \A k \in 1..call.length :
                ret.val[k] = PlaceDigit(call.value, call.length, k)

\* C10 (as claimed): for 0 <= u < 200 the usage field holds the two hundreds
\* LEDs followed by the two-digit rendering of u mod 100, the encoder's
\* get_number_array(u mod 100, 2, 10), and the percent LED is on.
C10_TwoDigitRenderingOfRemainder ==
    (EncReturned("set_usage") /\ leds_indexes = "big"
        /\ call.value >= 0 /\ call.value < 200) =>
       LET h == IF call.value >= 100 THEN 1 ELSE 0 IN
       /\ Field(Key[call.device].usage) =
             << h, h >> \o MaskOf(get_number_array(call.value % 100, 2, 10))
       /\ Field(Key[call.device].percent_led) = << 1 >>

\* C10 (amended): for 0 <= u < 200 the usage field holds the two hundreds LEDs,
\* both off for u <= 99 and both on for u >= 100, then the 7 segments of the
\* tens digit of u, which are blank only when u <= 9 (100..109 show the digit
\* 0), then the 7 segments of the units digit; the percent LED is on.
C10_HundredsTensUnits ==
    (EncReturned("set_usage") /\ leds_indexes = "big"
        /\ call.value >= 0 /\ call.value < 200) =>
       LET u == call.value
           h == IF u >= 100 THEN 1 ELSE 0
           tens == IF u <= 9 THEN BlankRow ELSE digit_mask[((u \div 10) % 10) + 1]
       IN  /\ ret.exc = "none"
           /\ Field(Key[call.device].usage) =
                 << h, h >> \o tens \o digit_mask[(u % 10) + 1]
           /\ Field(Key[call.device].percent_led) = << 1 >>

\* C10 witness: set_usage(105) has lit both hundreds LEDs of the cpu field.
C10_Witness ==
    /\ EncReturned("set_usage") /\ leds_indexes = "big"
    /\ call.value = 105 /\ call.device = "cpu"
    /\ leds[26] = 1 /\ leds[27] = 1

-----------------------------------------------------------------------------
\* Properties of the display loop.

\* The last update() returned: the loop is running, or the cycle went on to
\* select a routine before it was aborted.
UpdateReturned == pc = "display" \/ routine # "none"

ConfiguredMode == Get(config, "display_mode", "metrics")

ConfiguredLayout == Get(config, "layout_mode", "big")

\* C1 (as claimed): an iteration of the display loop that starts with the
\* device handle absent calls get_device again, and acquires the panel when it
\* is attached and the resolved id pair is the panel's.
C1_AbsentDeviceReopened ==
    [][(pc = "display" /\ dev = "None" /\ UNCHANGED openable)
          => /\ opened'
             /\ (openable /\ pc' = "display" /\ VENDOR_ID' = DEFAULT_VENDOR_ID
                    /\ PRODUCT_ID' = DEFAULT_PRODUCT_ID) => dev' = "open"]_vars

\* C2 (as claimed): the display loop is never ended by a failed transport
\* write of send_packets.
C2_WriteFailureAbsorbed == pc = "crashed" => exc # "HIDException"

\* The metrics a routine encodes.
Encodes(r) ==
    IF r = "metrics" THEN {"cpu_temp", "cpu_usage", "gpu_temp", "gpu_usage"}
    ELSE IF r = "time_cpu+metrics_gpu" THEN {"gpu_temp", "gpu_usage"}
    ELSE IF r = "time_gpu+metrics_cpu" THEN {"cpu_temp", "cpu_usage"}
    ELSE IF r \in {"cpu_temp", "gpu_temp", "cpu_usage", "gpu_usage"} THEN {r}
    ELSE {}

OutOfRange(key, value) ==
    IF key \in {"cpu_temp", "gpu_temp"} THEN value >= 1000 ELSE value >= 200

\* C4 (as claimed): a cycle whose routine encodes a temperature >= 1000 or a
\* utilization >= 200 is aborted by the out-of-range error, in the reduced
\* layout's modes as in the others.
C4_OutOfRangeAborts ==
    (Truthy(config) /\ \E key \in Encodes(routine) : OutOfRange(key, metrics[key]))
        => exc \in {"TemperatureOutOfRange", "UsageOutOfRange"}

\* C5: after every update() of a loaded document the index map is the one of
\* the configured layout and the effective mode is the configured mode when
\* the layout has it, alternate_metrics (reduced layout) or metrics (full
\* layout) otherwise, hence always a mode of the active layout; after an
\* update() whose load failed it is metrics in the full layout; and update()
\* returns whenever the document's update interval is not zero.
C5_ModeOfActiveLayout ==
    /\ (UpdateReturned /\ Truthy(config)) =>
          IF ConfiguredLayout = "small"
          THEN /\ leds_indexes = "small"
               /\ display_mode = IF ConfiguredMode \in display_modes_small
                                 THEN ConfiguredMode ELSE "alternate_metrics"
               /\ display_mode \in display_modes_small
          ELSE /\ leds_indexes = "big"
               /\ display_mode = IF ConfiguredMode \in display_modes
                                 THEN ConfiguredMode ELSE "metrics"
               /\ display_mode \in display_modes
    /\ (UpdateReturned /\ ~Truthy(config)) =>
          /\ leds_indexes = "big"
          /\ display_mode = "metrics"
          /\ display_mode \in display_modes
    /\ (Truthy(config) /\ Get(config, "update_interval", 100) # 0) => UpdateReturned
    /\ ~Truthy(config) => UpdateReturned

\* C5 witness: the loop runs in the reduced layout with the fallback mode in
\* place of the configured mode metrics.
C5_Witness ==
    /\ pc = "display" /\ Truthy(config)
    /\ ConfiguredLayout = "small" /\ ConfiguredMode = "metrics"
    /\ display_mode = "alternate_metrics"
    /\ routine # "none"

\* C6 (as claimed): a cycle whose configured mode no routine recognises sends
\* an all-off frame.
C6_UnrecognisedSendsBlank ==
    (Truthy(config) /\ ConfiguredMode \notin RecognisedModes /\ written = PACKETS)
        => /\ leds = BlankLeds
           /\ \A i \in 1..Len(message) : message[i] = "000000"

\* C6 (amended): a configured mode no routine recognises is replaced by
\* update() with the layout's default mode; the cycle selects a routine of
\* that mode, never the blank-frame branch, and a frame it sends is the
\* routine's, with LEDs lit, after which the loop goes on.
C6_UnrecognisedFallsBack ==
    (Truthy(config) /\ ConfiguredMode \notin RecognisedModes /\ UpdateReturned) =>
       /\ display_mode = IF ConfiguredLayout = "small" THEN "alternate_metrics" ELSE "metrics"
       /\ routine \in {"none", "metrics", "cpu_temp", "gpu_temp", "cpu_usage", "gpu_usage"}
       /\ written = PACKETS =>
             /\ leds # BlankLeds
             /\ \E i \in 1..Len(message) : message[i] # "000000"
             /\ pc = "display"

\* C6 witness: a cycle configured with an unrecognised mode has sent a frame.
C6_Witness ==
    /\ Truthy(config) /\ ConfiguredMode = "bogus"
    /\ pc = "display" /\ written = PACKETS
    /\ routine = "metrics"

\* C7 (as claimed): a cycle whose config load failed runs with the built-in
\* defaults: update() installs them all and nothing aborts the cycle (a failed
\* transport write apart).
C7_FailedLoadRunsDefaults ==
    config = None =>
       /\ display_mode = "metrics"
       /\ leds_indexes = "big"
       /\ metrics_max_value = DEFAULT_MAX
       /\ metrics_min_value = DEFAULT_MIN
       /\ metrics_colors = Palette("ff0000")
       /\ time_colors = Palette("ffe000")
       /\ update_interval = 100
       /\ cycle_duration = 50
       /\ VENDOR_ID = DEFAULT_VENDOR_ID
       /\ PRODUCT_ID = DEFAULT_PRODUCT_ID
       /\ exc \in {"none", "HIDException"}

-----------------------------------------------------------------------------
\* send_packets on its own: applied once to a drawn LED buffer and color buffer
\* with a device open, every outcome of the five writes.

FrameLeds ==
    { BlankLeds,
      Repeat(1, NUMBER_OF_LEDS),
      [i \in 1..NUMBER_OF_LEDS |-> i % 2],
      [i \in 1..NUMBER_OF_LEDS |-> IF 2 * i <= NUMBER_OF_LEDS THEN 1 ELSE 0],
      [i \in 1..NUMBER_OF_LEDS |-> IF i % 3 = 0 THEN 7 ELSE 0],
      [i \in 1..NUMBER_OF_LEDS |-> IF i = NUMBER_OF_LEDS THEN 1 ELSE 0] }

FramePalettes ==
    { Palette("ffe000"),
      Palette("ff0000"),
      [i \in 1..NUMBER_OF_LEDS |-> IF i % 2 = 0 THEN "00ff00" ELSE "0000ff"],
      [i \in 1..NUMBER_OF_LEDS |-> IF i <= 10 THEN "000000" ELSE "a1b2c3"] }

FrameInit ==
    /\ pc = "frame"
    /\ exc = "none"
    /\ leds \in FrameLeds
    /\ colors \in FramePalettes
    /\ openable = TRUE
    /\ dev = "open"
    /\ VENDOR_ID = DEFAULT_VENDOR_ID
    /\ PRODUCT_ID = DEFAULT_PRODUCT_ID
    /\ config = None
    /\ leds_indexes = "big"
    /\ display_mode = "metrics"
    /\ cycle_duration = 50
    /\ update_interval = 100
    /\ cpt = 0
    /\ metrics_colors = Palette("ff0000")
    /\ time_colors = Palette("ffe000")
    /\ metrics_min_value = DEFAULT_MIN
    /\ metrics_max_value = DEFAULT_MAX
    /\ temp_unit = [cpu |-> "celsius", gpu |-> "celsius"]
    /\ metrics = NoSample
    /\ opened = FALSE
    /\ routine = "none"
    /\ written = 0
    /\ message = << >>
    /\ slept = 0
    /\ call = NoCall
    /\ ret = EncPending

FrameSend(failing_write) ==
    /\ pc = "frame"
    /\ \E s \in {send_packets(Self, failing_write)} :
           /\ pc' = IF Ok(s) THEN "frame_done" ELSE "crashed"
           /\ exc' = s.exc
           /\ written' = s.written
           /\ message' = s.message
    /\ UNCHANGED << openable, dev, VENDOR_ID, PRODUCT_ID, config, leds_indexes,
                    display_mode, cycle_duration, update_interval, cpt, leds,
                    colors, metrics_colors, time_colors, metrics_min_value,
                    metrics_max_value, temp_unit, metrics, opened, routine,
                    slept, call, ret >>

FrameNext == \E failing_write \in WriteOutcomes : FrameSend(failing_write)

SpecFrame == FrameInit /\ [][FrameNext]_vars

-----------------------------------------------------------------------------
\* Properties of the frame (specification SpecFrame).

FrameBuilt == pc \in {"frame_done", "crashed"} /\ message # << >>

\* The payload of packet k: what follows the header or the marker.
Payload(p, k) == Slice(p, IF k = 1 THEN Len(HEADER) ELSE 2, Len(p))

\* C11: a send_packets call whose writes all succeed makes exactly five
\* writes, packet 0 first and then packets 1 to 4; packet 0 starts with the
\* header, each of packets 1 to 4 with the byte 00, the payloads are the
\* consecutive slices of the message, and the byte length of every packet is
\* the one it has for the all-off frame, whatever the buffers hold.
C11_FivePacketsFixedFraming ==
    /\ pc = "frame_done" => written = 5
    /\ FrameBuilt =>
          /\ written <= 5
          /\ Len(PacketsOf(message)) = 5
          /\ Slice(PacketsOf(message)[1], 0, Len(HEADER)) = HEADER
          /\ \A k \in 2..5 : Slice(PacketsOf(message)[k], 0, 2) = "00"
          /\ \A k \in 1..5 :
                ByteLen(PacketsOf(message)[k])
                   = ByteLen(PacketsOf(Repeat("000000", NUMBER_OF_LEDS))[k])
          /\ Join([k \in 1..5 |-> Payload(PacketsOf(message)[k], k)]) = Join(message)

\* C11 witness: five packets of a frame with lit LEDs have been written.
C11_Witness ==
    /\ pc = "frame_done" /\ written = 5
    /\ leds = Repeat(1, NUMBER_OF_LEDS)
    /\ Slice(PacketsOf(message)[1], Len(HEADER), Len(HEADER) + 6) = "ffe000"

\* C12: in the message, LED i, in panel order, contributes the 6 hex digits (3
\* bytes) of its color-buffer entry when its LED-buffer entry is not 0 and
\* 000000 when it is 0; the message of an all-off LED buffer is all zeros.
C12_OffLedsSendZero ==
    FrameBuilt =>
       /\ Len(Join(message)) = 6 * NUMBER_OF_LEDS
       /\ \A i \in 1..NUMBER_OF_LEDS :
             Slice(Join(message), 6 * (i - 1), 6 * i)
                = IF leds[i] # 0 THEN colors[i] ELSE "000000"
       /\ leds = BlankLeds =>
             Join(message) = Join(Repeat("000000", NUMBER_OF_LEDS))

\* C12 witness: a frame was built from a buffer with a lit LED next to an
\* unlit LED whose configured color is not black.
C12_Witness ==
    /\ pc = "frame_done"
    /\ leds[1] # 0 /\ leds[2] = 0 /\ colors[2] = "00ff00"
    /\ message[1] = "0000ff" /\ message[2] = "000000"

-----------------------------------------------------------------------------
\* The display loop in the modes that rotate with the tick, with a device
\* present, an unchanged config and samples within the encoder's bounds.

CycleMaxD == 4

\* A document whose cycle lasts d ticks.
CycleDoc(mode, layout, d) ==
    ("display_mode" :> mode) @@ ("layout_mode" :> layout)
    @@ ("update_interval" :> 1000) @@ ("cycle_duration" :> d * 1000)

CycleDocs ==
    {CycleDoc("alternate_metrics", "small", d) : d \in 1..CycleMaxD}
    \cup {CycleDoc(mode, "big", d) :
             mode \in {"alternate_time", "alternate_time_with_seconds"},
             d \in 1..CycleMaxD}

Cool == [cpu_temp |-> 40, gpu_temp |-> 35, cpu_usage |-> 10, gpu_usage |-> 20]

CycleSamples == {Normal, Cool}

InitCycle == InitOver(CycleDocs) /\ openable

NextCycle == \E m \in CycleSamples : DisplayCycle(config, m, Morning, PACKETS)

SpecCycle == InitCycle /\ [][NextCycle]_vars

-----------------------------------------------------------------------------
\* Properties of the rotation (specification SpecCycle).

Rotation == << "cpu_temp", "gpu_temp", "cpu_usage", "gpu_usage" >>

\* The display of the quarter tick t falls in: the selection changes at ticks
\* 0, d/2, d and 3d/2.
Quarter(t, d) ==
    IF 2 * t < d THEN 1 ELSE IF t < d THEN 2 ELSE IF 2 * t < 3 * d THEN 3 ELSE 4

\* The position of a display in the rotation.
RotationIndex(r) == CHOOSE k \in 1..4 : Rotation[k] = r

\* C13 (as claimed): in alternate_metrics mode, for every cycle duration >= 1,
\* a rendered cycle shows the display the previous cycle showed or the next
\* one of the cyclic order cpu-temperature, gpu-temperature, cpu-utilization,
\* gpu-utilization, none being skipped.
C13_NoDisplaySkipped ==
    [][(display_mode' = "alternate_metrics" /\ routine # "none") =>
          RotationIndex(routine')
             \in {RotationIndex(routine), (RotationIndex(routine) % 4) + 1}]_vars

\* C13 (amended): in alternate_metrics mode every rendered cycle shows the
\* display of the quarter its tick falls in, is completed, and advances the
\* tick by 1 modulo 2 x cycleDuration; for every cycle duration >= 2 every
\* quarter holds a tick, and consecutive cycles show the same display or the
\* next one of the cyclic order, so that any 2 x cycleDuration consecutive
\* cycles show all four.
C13_RotationFromTwoTicks ==
    /\ [][display_mode' = "alternate_metrics" =>
            /\ routine' = Rotation[Quarter(cpt, cycle_duration')]
            /\ cpt' = (cpt + 1) % (2 * cycle_duration')
            /\ pc' = "display" /\ written' = 5
            /\ (routine # "none" /\ cycle_duration' >= 2) =>
                  RotationIndex(routine')
                     \in {RotationIndex(routine), (RotationIndex(routine) % 4) + 1}]_vars
    /\ [](display_mode = "alternate_metrics" /\ cycle_duration >= 2 =>
            \A k \in 1..4 : \E t \in 0..(2 * cycle_duration - 1) :
                Quarter(t, cycle_duration) = k)

\* C13 witness: the rotation has reached its last display with a cycle of 2
\* ticks.
C13_Witness ==
    /\ display_mode = "alternate_metrics" /\ cycle_duration = 2
    /\ routine = "gpu_usage" /\ cpt = 0 /\ written = 5

FirstPhase == [alternate_time |-> "time_cpu+metrics_gpu",
               alternate_time_with_seconds |-> "time_with_seconds"]

SecondPhase == [alternate_time |-> "time_gpu+metrics_cpu",
                alternate_time_with_seconds |-> "metrics"]

TwoPhase == display_mode \in {"alternate_time", "alternate_time_with_seconds"}

\* C14: in alternate_time and alternate_time_with_seconds a cycle renders the
\* first phase exactly when its tick is below cycleDuration and the second
\* phase otherwise, is completed, and advances the tick by 1 modulo
\* 2 x cycleDuration; the phase changes exactly at the ticks 0 and
\* cycleDuration, so that the phases alternate and each lasts cycleDuration
\* consecutive cycles.
C14_TwoPhasesAlternate ==
    /\ [][TwoPhase' =>
            /\ (cpt < cycle_duration') <=> (routine' = FirstPhase[display_mode'])
            /\ (cpt >= cycle_duration') <=> (routine' = SecondPhase[display_mode'])
            /\ cpt' = (cpt + 1) % (2 * cycle_duration')
            /\ pc' = "display" /\ written' = 5
            /\ routine # "none" =>
                  ((routine' # routine) <=> (cpt \in {0, cycle_duration'}))]_vars
    /\ [](TwoPhase => cpt \in 0..(2 * cycle_duration - 1))

\* C14 witness: the second phase of alternate_time has been rendered at the
\* last tick of a cycle of 3 ticks.
C14_Witness ==
    /\ display_mode = "alternate_time" /\ cycle_duration = 3
    /\ routine = "time_gpu+metrics_cpu" /\ cpt = 0 /\ written = 5

-----------------------------------------------------------------------------
\* The display loop over documents whose "metrics" palette is made of one
\* color entry of each kind, in the metrics mode of the full layout.

Noon == [hour |-> 12, minute |-> 30, second |-> 59]

ColorEntries ==
    { << "00ff00" >>,
      << "000000", "ffffff" >>,
      << "ff0000", "0000ff", "cpu_temp" >>,
      << "ff0000", "0000ff", "seconds" >>,
      << "ff0000", "0000ff", "fan_speed" >> }

ColorDoc(entry) ==
    ("metrics" :> Repeat(entry, NUMBER_OF_LEDS))
    @@ ("update_interval" :> 1000) @@ ("cycle_duration" :> 2000)

ColorDocs == {ColorDoc(entry) : entry \in ColorEntries}

ColorTimes == {Morning, Noon}

InitColors == InitOver(ColorDocs)

NextColors ==
    \E doc \in ColorDocs, m \in CycleSamples, now \in ColorTimes :
        DisplayCycle(doc, m, now, PACKETS)

SpecColors == InitColors /\ [][NextColors]_vars

\* The key of the three-part gradient the loaded "metrics" palette is made of,
\* "none" when it is made of something else.
GradientKey ==
    IF Truthy(config) /\ "metrics" \in DOMAIN config /\ Len(config["metrics"][1]) = 3
    THEN config["metrics"][1][3] ELSE "none"

\* C15 (as claimed): resolving a three-part gradient whose key is neither a
\* time field nor a metric of the provider raises nothing and gives the start
\* color, so that update() completes and the cycle goes on.
C15_UnknownKeyGivesStartColor ==
    GradientKey \notin ({"none", "seconds", "minutes", "hours"} \cup DOMAIN Normal) =>
       /\ exc = "none"
       /\ pc = "display"
       /\ metrics_colors = Palette(config["metrics"][1][1])

-----------------------------------------------------------------------------
\* main() with test_mode true: the test loop, which an interrupt signal ends.

TestDocs == {None, DocPlain, LayoutDoc("small")}

TestDigits == {1, 5, 9}

TestPhases == 0..3

InitTest == InitIn(TestDocs, "test")

\* One iteration of the test loop; an exception other than KeyboardInterrupt
\* leaves main().
TestCycle(doc, test_digit, cycle, failing_write) ==
    /\ pc = "test"
    /\ \E s \in {test_iteration(Self, doc, openable, Normal, Morning,
                                test_digit, cycle, failing_write)} :
           /\ failing_write < PACKETS =>
                 s.exc = "HIDException" /\ s.written = failing_write
           /\ BecomesIn(s, "test")
    /\ metrics' = Normal
    /\ UNCHANGED << openable, call, ret >>

\* KeyboardInterrupt while the test loop runs.
Interrupt ==
    /\ pc = "test"
    /\ \E s \in {interrupt_handler(Self)} : BecomesIn(s, "exited")
    /\ UNCHANGED << openable, metrics, call, ret >>

NextTest ==
    \/ \E doc \in TestDocs, test_digit \in TestDigits, cycle \in TestPhases,
          failing_write \in WriteOutcomes :
          TestCycle(doc, test_digit, cycle, failing_write)
    \/ Interrupt

SpecTest == InitTest /\ [][NextTest]_vars

\* C16 (as claimed): an interrupt of the test loop leads to one final all-off
\* frame being written, and the program exits without any error.
C16_InterruptSendsFinalFrame ==
    routine = "interrupt" =>
       /\ exc = "none"
       /\ pc = "exited"
       /\ written = PACKETS
       /\ message = Repeat("000000", NUMBER_OF_LEDS)

\* send_packets was reached in the last step: its message was built.
SendReached == message # << >>

\* C20 (as claimed): send_packets is reached only with the device handle
\* present, and a step with an absent handle writes no packet and raises
\* nothing in send_packets.
C20_NoSendWithoutDevice ==
    /\ SendReached => dev = "open"
    /\ dev = "None" => written = 0

-----------------------------------------------------------------------------
\* Properties of update() and of the tick in the display loop (specification
\* Spec), and of the gradient factor (specification SpecEnc).

\* The id pair update() resolves from the document it loaded.
ResolvedIds(doc) ==
    IF Truthy(doc)
    THEN << HexInt(Get(doc, "vendor_id", DEFAULT_VENDOR_HEX)),
            HexInt(Get(doc, "product_id", DEFAULT_PRODUCT_HEX)) >>
    ELSE << DEFAULT_VENDOR_ID, DEFAULT_PRODUCT_ID >>

\* C17: the update() of a cycle calls get_device exactly when the id pair it
\* resolves differs from the pair in use; the pair in use then becomes the
\* resolved pair and the handle the result of get_device; otherwise the
\* handle and the pair in use are unchanged.
C17_ReopenExactlyOnIdChange ==
    [][(pc = "display" /\ UNCHANGED openable) =>
          /\ opened' <=> (ResolvedIds(config') # << VENDOR_ID, PRODUCT_ID >>)
          /\ opened' =>
                /\ << VENDOR_ID', PRODUCT_ID' >> = ResolvedIds(config')
                /\ dev' = IF openable /\ VENDOR_ID' = DEFAULT_VENDOR_ID
                                      /\ PRODUCT_ID' = DEFAULT_PRODUCT_ID
                          THEN "open" ELSE "None"
          /\ ~opened' =>
                /\ dev' = dev
                /\ VENDOR_ID' = VENDOR_ID
                /\ PRODUCT_ID' = PRODUCT_ID]_vars

\* C17 witness: a cycle has re-opened the device for a vendor id the config
\* changed, the product id being the one in use.
C17_Witness ==
    /\ slept > 0 /\ opened
    /\ VENDOR_ID = HexInt(ALT_VENDOR_HEX) /\ PRODUCT_ID = DEFAULT_PRODUCT_ID
    /\ dev = "None"

\* C18 (as claimed): where a cycle selects its routine the tick is below
\* 2 x cycle_duration of that cycle, whatever the reloads, and the modulus of
\* the tick's increment is never 0.
C18_TickWithinCycle ==
    /\ [][(pc = "display" /\ routine' # "none") => cpt < 2 * cycle_duration']_vars
    /\ [](exc # "ZeroDivisionError")

\* C19: for a cycle of D >= 1 ticks and a tick t in [0, 2D) the two-part
\* factor is 1 - |(t mod D) - D/2| / (D/2), lies in [0, 1], is 0 at t = 0 and
\* t = D, is 1 at t = D/2 when D is even, and is the same at t and t + D.
C19_TriangularFactor ==
    EncReturned("two_part_factor") =>
       /\ ret.val[2] > 0
       /\ 0 <= ret.val[1] /\ ret.val[1] <= ret.val[2]
       /\ ret.val[1] * call.length
             = ret.val[2] * (call.length
                  - (IF 2 * (call.value % call.length) >= call.length
                     THEN 2 * (call.value % call.length) - call.length
                     ELSE call.length - 2 * (call.value % call.length)))
       /\ call.value \in {0, call.length} => ret.val[1] = 0
       /\ 2 * call.value = call.length => ret.val[1] = ret.val[2]
       /\ two_part_factor(call.value + call.length, call.length)
             = [num |-> ret.val[1], den |-> ret.val[2]]

\* C19 witness: the factor at the middle of a cycle of 4 ticks is 1.
C19_Witness ==
    /\ EncReturned("two_part_factor")
    /\ call.value = 2 /\ call.length = 4
    /\ ret.val = << 4, 4 >>

-----------------------------------------------------------------------------
\* send_packets for every LED count: applied once to an LED buffer and a color
\* buffer of n entries, n in 0..SplitMaxLeds, with a device open and every
\* write succeeding. Every color of a buffer differs from the others, so a
\* digit that moved shows.

SplitMaxLeds == 101

\* The hex digits the packets can carry: 88 after the header and 4 x 128.
CAPACITY == (128 - Len(HEADER)) + 4 * 128

SplitLeds(n) ==
    { Repeat(1, n),
      [i \in 1..n |-> IF i % 5 = 0 THEN 0 ELSE 1] }

SplitPalettes(n) ==
    { [i \in 1..n |-> "a" \o HexByte(i) \o HexByte(255 - i) \o "c"],
      [i \in 1..n |-> HexByte(n + 1 - i) \o "5e" \o HexByte(i)] }

SplitInit ==
    /\ pc = "split"
    /\ exc = "none"
    /\ \E n \in 0..SplitMaxLeds :
          /\ leds \in SplitLeds(n)
          /\ colors \in SplitPalettes(n)
    /\ openable = TRUE
    /\ dev = "open"
    /\ VENDOR_ID = DEFAULT_VENDOR_ID
    /\ PRODUCT_ID = DEFAULT_PRODUCT_ID
    /\ config = None
    /\ leds_indexes = "big"
    /\ display_mode = "metrics"
    /\ cycle_duration = 50
    /\ update_interval = 100
    /\ cpt = 0
    /\ metrics_colors = Palette("ff0000")
    /\ time_colors = Palette("ffe000")
    /\ metrics_min_value = DEFAULT_MIN
    /\ metrics_max_value = DEFAULT_MAX
    /\ temp_unit = [cpu |-> "celsius", gpu |-> "celsius"]
    /\ metrics = NoSample
    /\ opened = FALSE
    /\ routine = "none"
    /\ written = 0
    /\ message = << >>
    /\ slept = 0
    /\ call = NoCall
    /\ ret = EncPending

\* send_packets (lines 97-104) on buffers of Len(leds) entries: the message
\* is built and the five writes are made.
SplitSend ==
    /\ pc = "split"
    /\ message' = MessageOfCount(Self, Len(leds))
    /\ written' = PACKETS
    /\ pc' = "split_done"
    /\ UNCHANGED << exc, openable, dev, VENDOR_ID, PRODUCT_ID, config,
                    leds_indexes, display_mode, cycle_duration, update_interval,
                    cpt, leds, colors, metrics_colors, time_colors,
                    metrics_min_value, metrics_max_value, temp_unit, metrics,
                    opened, routine, slept, call, ret >>

SplitNext == SplitSend

SpecSplit == SplitInit /\ [][SplitNext]_vars

\* The payloads of the five packets, in the order of the writes.
Payloads(message_parts) ==
    Join([k \in 1..PACKETS |-> Payload(PacketsOf(message_parts)[k], k)])

\* C21: for every LED count n whose color sequence of 6 n hex digits is at
\* most 600 digits long, the payload of packet 0 after the header followed by
\* the payloads of packets 1 to 4 after their marker is exactly the color
\* sequence in panel order. (A longer sequence is cut after its 600th digit.)
C21_SplitKeepsSequence ==
    pc = "split_done" =>
       /\ Len(Join(message)) = 6 * Len(leds)
       /\ 6 * Len(leds) <= 600 => Payloads(message) = Join(message)
       /\ 6 * Len(leds) > 600 =>
             Payloads(message) = Slice(Join(message), 0, CAPACITY)

\* C21 witness: a sequence of exactly 600 digits, every LED lit, has been sent
\* and its last color ends the payload of the last packet.
C21_Witness ==
    /\ pc = "split_done" /\ written = PACKETS
    /\ Len(leds) = 100 /\ leds = Repeat(1, 100)
    /\ Len(Payloads(message)) = 600
    /\ Slice(Payload(PacketsOf(message)[5], 5), 122, 128) = colors[100]

====
